---- MODULE Spec2Model ----
(***************************************************************************)
(* GoogleCalendarService (src/src/lib/calendar.ts): credential resolution, *)
(* calendar enumeration, paginated multi-calendar event aggregation, the   *)
(* mutation operations, the error classification of getEvents and the      *)
(* token-rotation observer.                                                *)
(*                                                                         *)
(* Strings that the code searches with String.includes or builds with a    *)
(* template are sequences of text pieces: concatenation is \o and includes *)
(* is contiguous-subsequence search.  An optional value is a sequence of   *)
(* length at most one: None is absent (null/undefined), Some(x) present.   *)
(***************************************************************************)
EXTENDS Integers, Sequences, FiniteSets, TLC

\* ------------------------------------------------------------------ bounds
MaxRotations == 1    \* 'tokens' events the transport emits in one behaviour
MaxPages == 2        \* pages in one calendar's page chain
MaxItems == 2        \* events on a page that is not empty
MaxClock == 2        \* the instants are 1..MaxClock
MaxOverlap == 2      \* 'tokens' events whose observers run side by side

\* ----------------------------------------------------------- basic values
None == <<>>
Some(x) == <<x>>

NoToken == 0         \* let pageToken = undefined
NoStatus == 0        \* error.code / error.status absent
MaxResults == 250    \* maxResults of an events.list request

EmptyStr == <<>>

\* s.includes(needle)
Includes(s, needle) ==
    \E i \in 0..(Len(s) - Len(needle)) :
        \A j \in 1..Len(needle) : s[i + j] = needle[j]

\* truthiness of an optional string: null, undefined and '' are falsy
TruthyStr(o) == o # None /\ o[1] # EmptyStr

\* the same for an opaque token, an atomic string
TruthyTok(o) == o # None /\ o[1] # ""

\* new Error(message): no code, no status, no response body
NewError(m) == [message |-> m, code |-> NoStatus, status |-> NoStatus, respMsg |-> None]

\* ------------------------------------------------- messages of the service
MsgNoLinkedAccount == <<"No Google account linked">>
MsgMissingAccessToken == <<"No access token found. Please sign in again.">>
MsgInsufficientScope ==
    <<"Calendar permissions not granted. Please sign out and sign in again to grant calendar access.">>
MsgAuthExpired ==
    <<"Google Calendar authentication expired. Please sign out and sign in again.">>
MsgApiNotEnabled ==
    <<"Google Calendar API is not enabled in your Google Cloud Console. Please enable it at https://console.cloud.google.com/apis/library/calendar-json.googleapis.com">>
MsgInsufficientPermission ==
    <<"Insufficient permissions for Google Calendar. Please sign out and sign in again to grant calendar access.">>
MsgAccessDeniedPrefix == <<"Google Calendar access denied. ">>
MsgAccessDeniedDefault ==
    <<"Please ensure Calendar API is enabled in Google Cloud Console and you have granted calendar permissions.">>
MsgRateLimited == <<"Google Calendar API rate limit exceeded. Please try again later.">>
MsgEventsFailedPrefix == <<"Failed to fetch calendar events: ">>
MsgListFailedPrefix == <<"Failed to fetch calendar list: ">>

\* the substrings the code searches for
ScopeRead == <<"calendar", ".readonly">>
ScopeEvents == <<"calendar", ".events">>
PatApiNotUsed == <<"Calendar API has not been used">>
PatNotEnabled == <<"has not been enabled">>
PatInsufficient == <<"insufficient">>
PatScope == <<"scope">>

\* ------------------------------------------------------ credential store
Users == {"u1", "u2"}

Row(u, at, rt, sc) ==
    [userId |-> u, accessToken |-> at, refreshToken |-> rt, scope |-> sc, updatedAt |-> 0]

ScopeBase == <<"openid", " ", "email">>
ScopeUrl == <<" ", "https://www.googleapis.com/auth/">>

\* every combination of the three columns getCalendarClient reads
AllRows(u) ==
    { Row(u, at, rt, sc) :
        at \in {None, Some(""), Some("at0")},
        rt \in {None, Some("rt0")},
        sc \in { None, Some(EmptyStr), Some(ScopeBase),
                 Some(ScopeBase \o ScopeUrl \o <<"calendar">>),
                 Some(ScopeBase \o ScopeUrl \o ScopeRead),
                 Some(ScopeBase \o ScopeUrl \o ScopeEvents),
                 Some(ScopeBase \o ScopeUrl \o ScopeEvents \o <<".readonly">>),
                 Some(ScopeBase \o ScopeUrl \o ScopeRead \o ScopeUrl \o ScopeEvents) } }

\* the credential records the complete model starts from
Rows(u) ==
    { Row(u, Some("at0"), Some("rt0"), Some(ScopeBase \o ScopeUrl \o ScopeRead \o ScopeUrl \o ScopeEvents)),
      Row(u, Some("at0"), Some("rt0"), Some(ScopeBase)),
      Row(u, Some("at0"), None, Some(ScopeBase \o ScopeUrl \o <<"calendar">>)),
      Row(u, None, Some("rt0"), Some(ScopeBase \o ScopeUrl \o ScopeRead)),
      Row(u, None, None, Some(ScopeBase)),
      Row(u, Some(""), Some("rt0"), Some(ScopeBase \o ScopeUrl \o ScopeEvents)) }

\* db.select().from(accounts).where(eq(accounts.userId, userId)).limit(1)
SelectAccount(table, userId) == table[userId]

\* variant: both capabilities are required
MissingCalendarScopesEither(scope) ==
    ~Includes(scope, ScopeRead) \/ ~Includes(scope, ScopeEvents)

\* !hasCalendarReadScope && !hasCalendarEventsScope
MissingCalendarScopes(scope) ==
    ~Includes(scope, ScopeRead) /\ ~Includes(scope, ScopeEvents)

\* variant: the scope is examined before the access token
GetCalendarClientScopeFirst(table, userId) ==
    LET userAccount == SelectAccount(table, userId) IN
    IF Len(userAccount) = 0
    THEN [ok |-> FALSE, error |-> NewError(MsgNoLinkedAccount), client |-> None]
    ELSE LET account == userAccount[1] IN
         IF TruthyStr(account.scope) /\ MissingCalendarScopes(account.scope[1])
         THEN [ok |-> FALSE, error |-> NewError(MsgInsufficientScope), client |-> None]
         ELSE IF ~TruthyTok(account.accessToken)
         THEN [ok |-> FALSE, error |-> NewError(MsgMissingAccessToken), client |-> None]
         ELSE [ok |-> TRUE, error |-> NewError(EmptyStr),
               client |-> Some([userId |-> userId,
                                access_token |-> account.accessToken,
                                refresh_token |-> account.refreshToken])]

\* getCalendarClient, from the row the store returned to the client handle
GetCalendarClient(table, userId) ==
    LET userAccount == SelectAccount(table, userId) IN
    IF Len(userAccount) = 0
    THEN [ok |-> FALSE, error |-> NewError(MsgNoLinkedAccount), client |-> None]
    ELSE LET account == userAccount[1] IN
         IF ~TruthyTok(account.accessToken)
         THEN [ok |-> FALSE, error |-> NewError(MsgMissingAccessToken), client |-> None]
         ELSE IF TruthyStr(account.scope) /\ MissingCalendarScopes(account.scope[1])
         THEN [ok |-> FALSE, error |-> NewError(MsgInsufficientScope), client |-> None]
         ELSE [ok |-> TRUE, error |-> NewError(EmptyStr),
               client |-> Some([userId |-> userId,
                                access_token |-> account.accessToken,
                                refresh_token |-> account.refreshToken])]

\* ------------------------------------------------------- error handling
\* catch block of listCalendars
ListCatch(error) == NewError(MsgListFailedPrefix \o error.message)

\* error.response?.data?.error?.message || error.message
ErrorMessage(error) == IF TruthyStr(error.respMsg) THEN error.respMsg[1] ELSE error.message

\* variant: only error.code is compared
HasStatusCodeOnly(error, n) == error.code = n

\* error.code === n || error.status === n
HasStatus(error, n) == error.code = n \/ error.status = n

\* variant: the rate limit is tested first
EventsCatchRateFirst(error) ==
    IF HasStatus(error, 429)
    THEN NewError(MsgRateLimited)
    ELSE IF HasStatus(error, 401)
    THEN NewError(MsgAuthExpired)
    ELSE IF HasStatus(error, 403)
    THEN LET errorMessage == ErrorMessage(error) IN
         IF Includes(errorMessage, PatApiNotUsed) \/ Includes(errorMessage, PatNotEnabled)
         THEN NewError(MsgApiNotEnabled)
         ELSE IF Includes(errorMessage, PatInsufficient) \/ Includes(errorMessage, PatScope)
         THEN NewError(MsgInsufficientPermission)
         ELSE NewError(MsgAccessDeniedPrefix \o
                       (IF errorMessage # EmptyStr THEN errorMessage ELSE MsgAccessDeniedDefault))
    ELSE NewError(MsgEventsFailedPrefix \o error.message)

\* catch block of getEvents
EventsCatch(error) ==
    IF HasStatus(error, 401)
    THEN NewError(MsgAuthExpired)
    ELSE IF HasStatus(error, 403)
    THEN LET errorMessage == ErrorMessage(error) IN
         IF Includes(errorMessage, PatApiNotUsed) \/ Includes(errorMessage, PatNotEnabled)
         THEN NewError(MsgApiNotEnabled)
         ELSE IF Includes(errorMessage, PatInsufficient) \/ Includes(errorMessage, PatScope)
         THEN NewError(MsgInsufficientPermission)
         ELSE NewError(MsgAccessDeniedPrefix \o
                       (IF errorMessage # EmptyStr THEN errorMessage ELSE MsgAccessDeniedDefault))
    ELSE IF HasStatus(error, 429)
    THEN NewError(MsgRateLimited)
    ELSE NewError(MsgEventsFailedPrefix \o error.message)

\* ------------------------------------------------------- remote provider
Calendars == {"A", "B"}

\* the calendar lists the provider can hold
CalendarLists == { <<>>, <<"A", "B">> }

\* failures a remote request can end with
RemoteErrors ==
    { [message |-> <<"Invalid Credentials">>, code |-> 401, status |-> 401,
       respMsg |-> Some(<<"Invalid Credentials">>)],
      [message |-> <<"Rate Limit Exceeded">>, code |-> 429, status |-> 429,
       respMsg |-> Some(<<"Rate Limit Exceeded">>)],
      [message |-> <<"socket hang up">>, code |-> NoStatus, status |-> NoStatus,
       respMsg |-> None] }

\* texts a provider error can carry
ProviderMessages ==
    { <<"socket hang up">>,
      <<"Google ", "Calendar API has not been used", " in project 1 before or it is disabled.">>,
      <<"Request had ", "insufficient", " authentication ", "scope", "s.">>,
      <<"Access Not Configured. The API ", "has not been enabled", " for the project: ",
        "insufficient", " project configuration.">>,
      <<"Calendar API has not been used", " by a client with ", "insufficient", " rights.">>,
      <<"The caller does not have permission">>,
      <<"Insufficient Permission">>,
      <<"Missing required ", "scope">>,
      EmptyStr }

StatusCodes == {NoStatus, 401, 403, 429, 500}

\* every shape of failure the catch block of getEvents can be handed
AllRemoteErrors ==
    { [message |-> m, code |-> c, status |-> st, respMsg |-> rm] :
        m \in ProviderMessages, c \in StatusCodes, st \in StatusCodes,
        rm \in {None} \cup { Some(x) : x \in ProviderMessages } }

\* the k-th event of a calendar; the provider orders a calendar by start time
Event(c, k) == [id |-> <<c, k>>, start |-> k]

RECURSIVE CountItems(_)
CountItems(pages) ==
    IF pages = <<>> THEN 0 ELSE Len(pages[1].items) + CountItems(Tail(pages))

\* a page the provider can append to a chain of which `pages` are known
NextPages(c, pages) ==
    { [items |-> [j \in 1..n |-> Event(c, CountItems(pages) + j)],
       nextPageToken |-> IF more THEN Len(pages) + 2 ELSE NoToken] :
        n \in {0, MaxItems}, more \in {m \in BOOLEAN : m => Len(pages) + 1 < MaxPages} }

\* events.list of the provider: the window is applied to the page's events
InWindow(e, q) ==
    /\ e.start >= q.timeMin
    /\ (q.timeMax # None => e.start <= q.timeMax[1])

EventsPage(page, q) ==
    LET visible == SelectSeq(page.items, LAMBDA e : InWindow(e, q)) IN
    [items |-> IF visible = <<>> THEN None ELSE Some(visible),
     nextPageToken |-> page.nextPageToken]

\* ------------------------------------------------------------------ state
VARIABLES
    accounts,    \* the accounts table: per user, the linked row if any
    clock,       \* the instant the last new Date() returned
    remote,      \* what the provider holds, as far as requests have revealed it
    pc,          \* the await the running operation is suspended at
    op,          \* the running operation and its arguments
    nested,      \* TRUE while getEvents runs its inner listCalendars
    clients,     \* the client handles getCalendarClient returned to this operation
    loop,        \* locals of the getEvents loops
    requests,    \* remote requests this operation has issued, in order
    responses,   \* the answers to them, in order
    resolves,    \* results of this operation's getCalendarClient calls
    outcome,     \* what the operation handed to its caller
    handlers,    \* the runs of the 'tokens' observer
    previous     \* what the caller's earlier call with these arguments returned

vars == <<accounts, clock, remote, pc, op, nested, clients, loop, requests,
          responses, resolves, outcome, handlers, previous>>

\* ------------------------------------------------------- operation inputs

StrArg(c) == Some([isArray |-> FALSE, ids |-> <<c>>])
ArrArg(cs) == Some([isArray |-> TRUE, ids |-> cs])

\* the (timeMin, timeMax, calendarId) triples a caller passes to getEvents
GetEventsArgs ==
    { <<None, None, cid>> :
        cid \in { None, StrArg(""), StrArg("A"), ArrArg(<<>>), ArrArg(<<"B", "A">>),
                  ArrArg(<<"A", "A">>) } }
    \cup { <<Some(2), Some(2), StrArg("A")>>, <<Some(1), None, ArrArg(<<"B", "A">>)>> }

Draft(su, de, st, en, at) ==
    [start |-> st, summary |-> su, description |-> de, end |-> en, attendees |-> at]

CreateDrafts == { Draft(Some("s1"), None, Some(1), Some(2), None) }
UpdateDrafts == { Draft(Some("s2"), None, None, None, None),
                  Draft(None, Some("d2"), Some(2), Some(2), None) }
EventIds == {"e1"}

NoDraft == Draft(None, None, None, None, None)

\* the event the provider holds under "e1" before the operation
StoredEvent == Draft(Some("s1"), Some("d1"), Some(1), Some(2), Some("a1"))

\* the identifier events.insert gives the new event
InsertedId == "e2"

Op(name, userId, timeMin, timeMax, calendarId, eventId, event) ==
    [userId |-> userId, timeMin |-> timeMin, timeMax |-> timeMax, name |-> name,
     calendarId |-> calendarId, eventId |-> eventId, event |-> event]

NoLoop ==
    [calendarIds |-> <<>>, idx |-> 0, queryParams |-> None, pageToken |-> NoToken,
     pageIndex |-> 0, allItems |-> <<>>]

\* a string is truthy unless empty; an array always is
TruthyCalendarId(arg) == arg # None /\ (arg[1].isArray \/ arg[1].ids[1] # "")

\* nothing is running; "u1" holds one of `rows`, "u2" has no linked account
Idle(rows) ==
    /\ accounts \in { [u \in Users |-> IF u = "u1" THEN Some(r) ELSE None] : r \in rows }
    /\ clock = 1
    /\ remote = [pages |-> [c \in Calendars |-> <<>>], list |-> None,
                 events |-> [id \in EventIds \cup {InsertedId} |->
                                IF id \in EventIds THEN Some(StoredEvent) ELSE None]]
    /\ pc = "idle"
    /\ op = Op("none", "u1", None, None, None, None, NoDraft)
    /\ nested = FALSE
    /\ clients = <<>>
    /\ loop = NoLoop
    /\ requests = <<>>
    /\ responses = <<>>
    /\ resolves = <<>>
    /\ outcome = None
    /\ handlers = <<>>
    /\ previous = None

Init == Idle(Rows("u1"))

\* --------------------------------------------------------- control helpers
Returned(v) == Some([error |-> NewError(EmptyStr), type |-> "value", value |-> v])
Threw(e) == Some([error |-> e, type |-> "error", value |-> <<>>])

\* the error the caller receives when `e` is thrown at the current point
Surface(e) ==
    CASE op.name = "listCalendars" -> ListCatch(e)
      [] op.name = "getEvents" -> EventsCatch(IF nested THEN ListCatch(e) ELSE e)
      [] OTHER -> e

\* an operation is called: it runs up to the store query of getCalendarClient
Invoke(o) ==
    /\ pc = "idle"
    /\ op' = o
    /\ pc' = "select"
    /\ nested' = FALSE
    /\ clients' = <<>>
    /\ loop' = NoLoop
    /\ requests' = <<>>
    /\ responses' = <<>>
    /\ resolves' = <<>>
    /\ outcome' = None
    /\ UNCHANGED <<accounts, clock, remote, handlers, previous>>

ListCalendars ==
    \E u \in Users : Invoke(Op("listCalendars", u, None, None, None, None, NoDraft))

GetEvents ==
    \E u \in Users, a \in GetEventsArgs :
        Invoke(Op("getEvents", u, a[1], a[2], a[3], None, NoDraft))

CreateEvent ==
    \E u \in Users, ev \in CreateDrafts :
        Invoke(Op("createEvent", u, None, None, None, None, ev))

UpdateEvent ==
    \E u \in Users, id \in EventIds, ev \in UpdateDrafts :
        Invoke(Op("updateEvent", u, None, None, None, Some(id), ev))

DeleteEvent ==
    \E u \in Users, id \in EventIds :
        Invoke(Op("deleteEvent", u, None, None, None, Some(id), NoDraft))

\* the caller of a getEvents that has returned calls it again with the same
\* arguments
GetEventsAgain ==
    /\ pc = "done"
    /\ op.name = "getEvents"
    /\ outcome # None
    /\ outcome[1].type = "value"
    /\ previous = None
    /\ previous' = outcome
    /\ pc' = "select"
    /\ nested' = FALSE
    /\ clients' = <<>>
    /\ loop' = NoLoop
    /\ requests' = <<>>
    /\ responses' = <<>>
    /\ resolves' = <<>>
    /\ outcome' = None
    /\ UNCHANGED <<accounts, clock, remote, op, handlers>>

\* events.update puts the request body in place of the stored resource
ProviderUpdate(stored, body) == body

\* events.update needs the start and the end of the event in the body
ProviderAccepts(o) ==
    o.name = "updateEvent" => (o.event.start # None /\ o.event.end # None)

\* ---------------------------------------------------------- remote requests
ListRequest == [api |-> "calendarList.list"]

\* variant: the request carries the token the loop held before this page
EventsRequestStale(queryParams, pageToken) ==
    [pageToken |-> loop.pageToken, api |-> "events.list", params |-> queryParams]

\* { ...queryParams, pageToken }
EventsRequest(queryParams, pageToken) ==
    [pageToken |-> pageToken, api |-> "events.list", params |-> queryParams]

MutationRequest(o) ==
    CASE o.name = "createEvent" ->
            [calendarId |-> "primary", api |-> "events.insert", requestBody |-> o.event]
      [] o.name = "updateEvent" ->
            [calendarId |-> "primary", eventId |-> o.eventId[1], api |-> "events.update",
             requestBody |-> o.event]
      [] OTHER ->
            [calendarId |-> "primary", eventId |-> o.eventId[1], api |-> "events.delete"]

\* queryParams of one iteration of the calendar loop
QueryParams(calId, timeMin, timeMax, now) ==
    [timeMin |-> IF timeMin # None THEN timeMin[1] ELSE now,
     timeMax |-> timeMax,
     calendarId |-> calId,
     maxResults |-> MaxResults,
     singleEvents |-> TRUE,
     orderBy |-> "startTime"]

\* variant: every item is tagged with the first selected calendar
TagItemFirst(item, calId) ==
    [id |-> item.id, start |-> item.start, calendarId |-> loop.calendarIds[1]]

\* item.calendarId = calId
TagItem(item, calId) == [id |-> item.id, start |-> item.start, calendarId |-> calId]

TagItems(items, calId) == [i \in 1..Len(items) |-> TagItem(items[i], calId)]

\* response.data.items ?? []
PageItems(data) == IF data.items # None THEN data.items[1] ELSE <<>>

\* variant: the aggregate is kept ordered by start time
RECURSIVE InsertByStart(_, _)
InsertByStart(sorted, e) ==
    IF sorted = <<>> THEN <<e>>
    ELSE IF e.start < sorted[1].start THEN <<e>> \o sorted
    ELSE <<sorted[1]>> \o InsertByStart(Tail(sorted), e)

RECURSIVE PushItemsSorted(_, _)
PushItemsSorted(allItems, items) ==
    IF items = <<>> THEN allItems
    ELSE PushItemsSorted(InsertByStart(allItems, items[1]), Tail(items))

\* allItems.push(...items)
PushItems(allItems, items) == allItems \o items

\* variant: the continuation token is dropped, the loop ends after one page
NextPageTokenDropped(data) == NoToken

\* pageToken = response.data.nextPageToken ?? undefined
NextPageToken(data) == data.nextPageToken

\* calendarIds = Array.isArray(calendarId) ? calendarId : [calendarId]
SelectedIds(calendarId) == calendarId[1].ids

\* calendars.map(cal => cal.id)
MapIds(calendars) == [i \in 1..Len(calendars) |-> calendars[i].id]

Descriptor(c) == [id |-> c, summary |-> c, primary |-> (c = "A"), accessRole |-> "owner"]

\* new Date(): time has passed since the last reading; a code path that does
\* not read the clock leaves it alone
Now(reads) == IF reads THEN clock..MaxClock ELSE {clock}

\* variant: the window always starts now, whatever timeMin the caller gave
EnterCalendarNow(ids, i, items) ==
    IF i > Len(ids)
    THEN /\ pc' = "done"
         /\ outcome' = Returned(items)
         /\ loop' = [loop EXCEPT !.calendarIds = ids, !.idx = i, !.allItems = items,
                                 !.queryParams = None, !.pageToken = NoToken]
         /\ UNCHANGED <<requests, clock>>
    ELSE \E now \in Now(TRUE) :
         LET qp == QueryParams(ids[i], None, op.timeMax, now) IN
         /\ clock' = now
         /\ pc' = "eventsList"
         /\ loop' = [calendarIds |-> ids, idx |-> i, queryParams |-> Some(qp),
                     pageToken |-> NoToken, pageIndex |-> 0, allItems |-> items]
         /\ requests' = Append(requests, EventsRequest(qp, NoToken))
         /\ UNCHANGED outcome

\* top of the i-th iteration of `for (const calId of calendarIds)`, or the
\* return that follows the loop
EnterCalendar(ids, i, items) ==
    IF i > Len(ids)
    THEN /\ pc' = "done"
         /\ outcome' = Returned(items)
         /\ loop' = [loop EXCEPT !.calendarIds = ids, !.idx = i, !.allItems = items,
                                 !.queryParams = None, !.pageToken = NoToken]
         /\ UNCHANGED <<requests, clock>>
    ELSE \E now \in Now(op.timeMin = None) :
         LET qp == QueryParams(ids[i], op.timeMin, op.timeMax, now) IN
         /\ clock' = now
         /\ pc' = "eventsList"
         /\ loop' = [calendarIds |-> ids, idx |-> i, queryParams |-> Some(qp),
                     pageToken |-> NoToken, pageIndex |-> 0, allItems |-> items]
         /\ requests' = Append(requests, EventsRequest(qp, NoToken))
         /\ UNCHANGED outcome

\* the store answers the query of getCalendarClient; the caller runs on to
\* its next await
SelectReturns ==
    /\ pc = "select"
    /\ LET r == GetCalendarClient(accounts, op.userId) IN
       /\ resolves' = Append(resolves, [ok |-> r.ok, error |-> r.error])
       /\ IF ~r.ok
          THEN /\ pc' = "done"
               /\ outcome' = Threw(Surface(r.error))
               /\ UNCHANGED <<clients, nested, loop, requests, clock>>
          ELSE /\ clients' = Append(clients, r.client[1])
               /\ IF op.name = "listCalendars" \/ nested
                  THEN /\ requests' = Append(requests, ListRequest)
                       /\ pc' = "calendarList"
                       /\ UNCHANGED <<nested, loop, outcome, clock>>
                  ELSE IF op.name = "getEvents"
                  THEN IF TruthyCalendarId(op.calendarId)
                       THEN /\ EnterCalendar(SelectedIds(op.calendarId), 1, <<>>)
                            /\ UNCHANGED nested
                       ELSE /\ nested' = TRUE
                            /\ pc' = "select"
                            /\ UNCHANGED <<loop, requests, outcome, clock>>
                  ELSE /\ requests' = Append(requests, MutationRequest(op))
                       /\ pc' = "mutate"
                       /\ UNCHANGED <<nested, loop, outcome, clock>>
    /\ UNCHANGED <<accounts, remote, op, responses, handlers, previous>>

\* calendarList.list is answered
CalendarListReturns ==
    /\ pc = "calendarList"
    /\ \E list \in (IF remote.list = None THEN CalendarLists ELSE {remote.list[1]}) :
        LET data == [items |-> IF list = <<>> THEN None
                               ELSE Some([i \in 1..Len(list) |-> Descriptor(list[i])])]
            calendars == PageItems(data)
        IN
        /\ remote' = [remote EXCEPT !.list = Some(list)]
        /\ responses' = Append(responses, [ok |-> TRUE, data |-> data])
        /\ IF op.name = "listCalendars"
           THEN /\ pc' = "done"
                /\ outcome' = Returned(calendars)
                /\ UNCHANGED <<nested, loop, requests, clock>>
           ELSE /\ nested' = FALSE
                /\ EnterCalendar(MapIds(calendars), 1, <<>>)
    /\ UNCHANGED <<accounts, op, clients, resolves, handlers, previous>>

\* variant: a rate-limited request is sent once more
RequestFailsRetry(at, errors) ==
    /\ pc = at
    /\ \E e \in errors :
        /\ responses' = Append(responses, [ok |-> FALSE, error |-> e])
        /\ IF e.status = 429 /\ \A k \in 1..Len(responses) : responses[k].ok
           THEN /\ requests' = Append(requests, requests[Len(requests)])
                /\ UNCHANGED <<pc, outcome>>
           ELSE /\ outcome' = Threw(Surface(e))
                /\ pc' = "done"
                /\ UNCHANGED requests
    /\ UNCHANGED <<accounts, clock, remote, op, nested, clients, loop,
                   resolves, handlers, previous>>

\* a remote request fails; the operation's catch blocks run
RequestFails(at, errors) ==
    /\ pc = at
    /\ \E e \in errors :
        /\ responses' = Append(responses, [ok |-> FALSE, error |-> e])
        /\ outcome' = Threw(Surface(e))
    /\ pc' = "done"
    /\ UNCHANGED <<accounts, clock, remote, op, nested, clients, loop, requests,
                   resolves, handlers, previous>>

CalendarListFails == RequestFails("calendarList", RemoteErrors)

\* variant: a failing calendar is skipped and the aggregation goes on
EventsListFailsIsolated ==
    /\ pc = "eventsList"
    /\ \E e \in RemoteErrors :
        responses' = Append(responses, [ok |-> FALSE, error |-> e])
    /\ EnterCalendar(loop.calendarIds, loop.idx + 1, loop.allItems)
    /\ UNCHANGED <<accounts, remote, op, nested, clients, resolves, handlers, previous>>

EventsListFails == RequestFails("eventsList", RemoteErrors)

EventsListFailsAny == RequestFails("eventsList", AllRemoteErrors)

MutationFails == RequestFails("mutate", RemoteErrors)

\* events.list is answered with a page: body of the do/while
EventsListReturns ==
    /\ pc = "eventsList"
    /\ LET q == requests[Len(requests)]
           c == q.params.calendarId
           known == remote.pages[c]
           k == IF q.pageToken = NoToken THEN 1 ELSE q.pageToken
       IN
       \E page \in (IF k <= Len(known) THEN {known[k]} ELSE NextPages(c, known)) :
        LET data == EventsPage(page, q.params)
            items == PageItems(data)
            calId == loop.calendarIds[loop.idx]
            allItems == PushItems(loop.allItems, TagItems(items, calId))
            pageToken == NextPageToken(data)
        IN
        /\ remote' = IF k <= Len(known) THEN remote
                     ELSE [remote EXCEPT !.pages[c] = Append(known, page)]
        /\ responses' = Append(responses, [ok |-> TRUE, data |-> data])
        /\ IF pageToken # NoToken
           THEN /\ loop' = [loop EXCEPT !.pageIndex = @ + 1, !.allItems = allItems,
                                        !.pageToken = pageToken]
                /\ requests' = Append(requests, EventsRequest(loop.queryParams[1], pageToken))
                /\ UNCHANGED <<pc, outcome, clock>>
           ELSE EnterCalendar(loop.calendarIds, loop.idx + 1, allItems)
    /\ UNCHANGED <<accounts, op, nested, clients, resolves, handlers, previous>>

\* events.insert / events.update / events.delete is answered
MutationReturns ==
    /\ pc = "mutate"
    /\ ProviderAccepts(op)
    /\ LET q == requests[Len(requests)]
           data == CASE op.name = "createEvent" -> [id |-> InsertedId, body |-> q.requestBody]
                     [] op.name = "updateEvent" ->
                            [id |-> q.eventId,
                             body |-> ProviderUpdate(remote.events[q.eventId][1], q.requestBody)]
                     [] OTHER -> [id |-> q.eventId]
       IN
       /\ remote' = [remote EXCEPT !.events[data.id] =
                        IF op.name = "deleteEvent" THEN None ELSE Some(data.body)]
       /\ responses' = Append(responses, [ok |-> TRUE, data |-> data])
       /\ outcome' = Returned(IF op.name = "deleteEvent" THEN [success |-> TRUE] ELSE data)
    /\ pc' = "done"
    /\ UNCHANGED <<accounts, clock, op, nested, clients, loop, requests,
                   resolves, handlers, previous>>

\* ------------------------------------------------- token-rotation observer
\* the token values the n-th 'tokens' event can carry
NewAccessToken(n) == IF n = 1 THEN "at1" ELSE IF n = 2 THEN "at2" ELSE "at3"
NewRefreshToken(n) == IF n = 1 THEN "rt1" ELSE IF n = 2 THEN "rt2" ELSE "rt3"

\* db.update(accounts).set({ <field>: value, updatedAt: new Date() })
UpdateStatement(field, value, now) == [updatedAt |-> now, value |-> value, field |-> field]

\* the observer from its call to its first await
StartHandler(userId, tokens, now) ==
    IF TruthyTok(tokens.access_token)
    THEN [userId |-> userId, pc |-> "access", tokens |-> tokens,
          issued |-> <<UpdateStatement("accessToken", tokens.access_token[1], now)>>]
    ELSE IF TruthyTok(tokens.refresh_token)
    THEN [userId |-> userId, pc |-> "refresh", tokens |-> tokens,
          issued |-> <<UpdateStatement("refreshToken", tokens.refresh_token[1], now)>>]
    ELSE [userId |-> userId, pc |-> "done", tokens |-> tokens, issued |-> <<>>]

\* the observer after the update it awaited has succeeded
ResumeHandler(h, now) ==
    IF h.pc = "access" /\ TruthyTok(h.tokens.refresh_token)
    THEN [h EXCEPT !.pc = "refresh",
                   !.issued = Append(@, UpdateStatement("refreshToken",
                                                        h.tokens.refresh_token[1], now))]
    ELSE [h EXCEPT !.pc = "done"]

\* variant: the statement sets both token columns, the one not carried to null
ApplyUpdateBoth(table, userId, w) ==
    [table EXCEPT ![userId] =
        IF @ = None THEN None
        ELSE Some(IF w.field = "accessToken"
                  THEN [@[1] EXCEPT !.accessToken = Some(w.value), !.refreshToken = None,
                                    !.updatedAt = w.updatedAt]
                  ELSE [@[1] EXCEPT !.accessToken = None, !.refreshToken = Some(w.value),
                                    !.updatedAt = w.updatedAt])]

\* .where(eq(accounts.userId, userId)): the statement applied to the table
ApplyUpdate(table, userId, w) ==
    [table EXCEPT ![userId] =
        IF @ = None THEN None
        ELSE Some(IF w.field = "accessToken"
                  THEN [@[1] EXCEPT !.accessToken = Some(w.value), !.updatedAt = w.updatedAt]
                  ELSE [@[1] EXCEPT !.refreshToken = Some(w.value), !.updatedAt = w.updatedAt])]

\* the transport refreshes the tokens while a request is in flight and emits
\* 'tokens', at most `max` times
Rotate(max) ==
    /\ pc \in {"calendarList", "eventsList", "mutate"}
    /\ Len(handlers) < max
    /\ LET n == Len(handlers) + 1 IN
       \E at \in {None, Some(NewAccessToken(n))}, rt \in {None, Some(NewRefreshToken(n))} :
        \E now \in Now(TruthyTok(at) \/ TruthyTok(rt)) :
            /\ clock' = now
            /\ handlers' = Append(handlers,
                                  StartHandler(op.userId,
                                               [access_token |-> at, refresh_token |-> rt], now))
    /\ UNCHANGED <<accounts, remote, pc, op, nested, clients, loop, requests,
                   responses, resolves, outcome, previous>>

TokensEvent == Rotate(MaxRotations)

\* a second 'tokens' event may come while the observer of the first is running
TokensEventOverlap == Rotate(MaxOverlap)

\* the store completes the update an observer awaits
UpdateReturns ==
    \E i \in 1..Len(handlers) :
        /\ pc # "crashed"
        /\ handlers[i].pc \in {"access", "refresh"}
        /\ LET h == handlers[i]
               w == h.issued[Len(h.issued)]
           IN
           \E now \in Now(h.pc = "access" /\ TruthyTok(h.tokens.refresh_token)) :
               /\ clock' = now
               /\ accounts' = ApplyUpdate(accounts, h.userId, w)
               /\ handlers' = [handlers EXCEPT ![i] = ResumeHandler(h, now)]
        /\ UNCHANGED <<remote, pc, op, nested, clients, loop, requests,
                       responses, resolves, outcome, previous>>

\* the store rejects the update: the observer's promise rejects with it and
\* nothing handles the rejection (no try/catch in the observer, the emitter
\* drops the promise); the runtime reports it and goes on, or ends the
\* process with everything in flight (Readme: Node.js 18+ or Bun)
UpdateFails ==
    \E i \in 1..Len(handlers) :
        /\ pc # "crashed"
        /\ handlers[i].pc \in {"access", "refresh"}
        /\ handlers' = [handlers EXCEPT ![i].pc = "rejected"]
        /\ pc' \in {pc, "crashed"}
        /\ UNCHANGED <<accounts, clock, remote, op, nested, clients, loop, requests,
                       responses, resolves, outcome, previous>>

Next ==
    \/ ListCalendars
    \/ GetEvents
    \/ CreateEvent
    \/ UpdateEvent
    \/ DeleteEvent
    \/ SelectReturns
    \/ CalendarListReturns
    \/ CalendarListFails
    \/ EventsListReturns
    \/ EventsListFails
    \/ MutationReturns
    \/ MutationFails
    \/ TokensEvent
    \/ UpdateReturns
    \/ UpdateFails
    \/ GetEventsAgain

Spec == Init /\ [][Next]_vars

\* the operations over a transport that never rotates the tokens
NextFetch ==
    \/ ListCalendars
    \/ GetEvents
    \/ CreateEvent
    \/ UpdateEvent
    \/ DeleteEvent
    \/ SelectReturns
    \/ CalendarListReturns
    \/ CalendarListFails
    \/ EventsListReturns
    \/ EventsListFails
    \/ MutationReturns
    \/ MutationFails

SpecFetch == Init /\ [][NextFetch]_vars

\* every credential record, each operation up to its first remote request,
\* which the provider has not answered yet, and the observer
InitResolve == Idle(AllRows("u1"))

NextResolve ==
    \/ ListCalendars
    \/ GetEvents
    \/ CreateEvent
    \/ UpdateEvent
    \/ DeleteEvent
    \/ SelectReturns
    \/ TokensEvent
    \/ UpdateReturns
    \/ UpdateFails

SpecResolve == InitResolve /\ [][NextResolve]_vars

\* listCalendars and the mutations from call to result, getEvents up to its
\* first events.list request, and the observer
NextStore ==
    \/ ListCalendars
    \/ GetEvents
    \/ CreateEvent
    \/ UpdateEvent
    \/ DeleteEvent
    \/ SelectReturns
    \/ CalendarListReturns
    \/ CalendarListFails
    \/ MutationReturns
    \/ MutationFails
    \/ TokensEvent
    \/ UpdateReturns
    \/ UpdateFails

SpecStore == Init /\ [][NextStore]_vars

\* an operation up to its first remote request, and two rotations of the
\* tokens during that request
NextRotate ==
    \/ ListCalendars
    \/ GetEvents
    \/ CreateEvent
    \/ UpdateEvent
    \/ DeleteEvent
    \/ SelectReturns
    \/ TokensEventOverlap
    \/ UpdateReturns
    \/ UpdateFails

SpecRotate == Init /\ [][NextRotate]_vars

\* every operation with the observer; the store answers every query and the
\* provider every request
NextLive ==
    \/ ListCalendars
    \/ GetEvents
    \/ CreateEvent
    \/ UpdateEvent
    \/ DeleteEvent
    \/ SelectReturns
    \/ CalendarListReturns
    \/ CalendarListFails
    \/ EventsListReturns
    \/ EventsListFails
    \/ MutationReturns
    \/ MutationFails
    \/ TokensEvent
    \/ UpdateReturns
    \/ UpdateFails

SpecLive ==
    /\ Init
    /\ [][NextLive]_vars
    /\ WF_vars(SelectReturns)
    /\ WF_vars(CalendarListReturns \/ CalendarListFails)
    /\ WF_vars(EventsListReturns \/ EventsListFails)
    /\ WF_vars(MutationReturns \/ MutationFails)

\* getEvents, and the same call once more after it has returned
NextRepeat ==
    \/ GetEvents
    \/ SelectReturns
    \/ CalendarListReturns
    \/ CalendarListFails
    \/ EventsListReturns
    \/ EventsListFails
    \/ GetEventsAgain

SpecRepeat == Init /\ [][NextRepeat]_vars

\* getEvents up to its first events.list request, which fails in any way
NextClassify ==
    \/ GetEvents
    \/ SelectReturns
    \/ EventsListFailsAny

SpecClassify == Init /\ [][NextClassify]_vars

\* ------------------------------------------------------------ the exchanges
\* the events.list requests of the operation, each with its answer
EventsLog ==
    SelectSeq([k \in 1..Len(responses) |-> [req |-> requests[k], res |-> responses[k]]],
              LAMBDA x : x.req.api = "events.list")

\* the exchanges that asked for calendar c
LogOf(c) == SelectSeq(EventsLog, LAMBDA x : x.req.params.calendarId = c)

\* the events the answers of a log carried, in order of arrival
RECURSIVE ItemsOfLog(_)
ItemsOfLog(log) ==
    IF log = <<>> THEN <<>>
    ELSE (IF log[1].res.data.items = None THEN <<>> ELSE log[1].res.data.items[1])
         \o ItemsOfLog(Tail(log))

\* a log cut into page chains: a chain ends with the answer that carries no
\* continuation token
RECURSIVE SplitChains(_, _)
SplitChains(log, cur) ==
    IF log = <<>> THEN (IF cur = <<>> THEN <<>> ELSE <<cur>>)
    ELSE IF log[1].res.ok /\ log[1].res.data.nextPageToken = NoToken
    THEN <<Append(cur, log[1])>> \o SplitChains(Tail(log), <<>>)
    ELSE SplitChains(Tail(log), Append(cur, log[1]))

RECURSIVE ConcatChains(_)
ConcatChains(chains) ==
    IF chains = <<>> THEN <<>> ELSE ItemsOfLog(chains[1]) \o ConcatChains(Tail(chains))

\* an event of the result as the provider sent it
Untagged(e) == [id |-> e.id, start |-> e.start]
UntaggedSeq(es) == [i \in 1..Len(es) |-> Untagged(es[i])]

Occurrences(c, ids) == Cardinality({ i \in 1..Len(ids) : ids[i] = c })

GetEventsReturned ==
    op.name = "getEvents" /\ outcome # None /\ outcome[1].type = "value"

GetEventsThrew ==
    op.name = "getEvents" /\ outcome # None /\ outcome[1].type = "error"

\* C1: when getEvents returns, every selected calendar whose chain has N pages
\* (only the last without continuation token) was asked exactly N times per
\* selection of it, the first request of a chain carrying no page token and
\* each later one the token of the answer before it, and the events of that
\* calendar in the result are the items of the answers in order of arrival,
\* none dropped, duplicated or moved.
C1_Pagination ==
    GetEventsReturned =>
        \A c \in Calendars :
            LET occ == Occurrences(c, loop.calendarIds)
                log == LogOf(c)
                chain == remote.pages[c]
                N == Len(chain)
            IN
            IF occ = 0 THEN log = <<>>
            ELSE /\ N >= 1
                 /\ chain[N].nextPageToken = NoToken
                 /\ \A k \in 1..(N - 1) : chain[k].nextPageToken # NoToken
                 /\ Len(log) = occ * N
                 /\ \A j \in 1..Len(log) :
                        log[j].req.pageToken =
                            IF (j - 1) % N = 0 THEN NoToken
                            ELSE log[j - 1].res.data.nextPageToken
                 /\ UntaggedSeq(SelectSeq(outcome[1].value, LAMBDA e : e.id[1] = c))
                        = ItemsOfLog(log)

\* a calendar answered by a chain of two pages, both with events
C1_Witness ==
    /\ GetEventsReturned
    /\ \E c \in Calendars :
        /\ Len(LogOf(c)) = 2
        /\ \A j \in 1..2 : Len(PageItems(LogOf(c)[j].res.data)) = MaxItems
        /\ Len(SelectSeq(outcome[1].value, LAMBDA e : e.id[1] = c)) = 2 * MaxItems

\* C2: the result of a successful getEvents is the events of the first
\* selected calendar, then those of the second, and so on: one page chain per
\* selected calendar, in selection order, and the result is the chains' items
\* in that order, neither interleaved nor re-sorted.
C2_CalendarMajor ==
    GetEventsReturned =>
        LET chains == SplitChains(EventsLog, <<>>)
            ids == loop.calendarIds
        IN
        /\ Len(chains) = Len(ids)
        /\ \A i \in 1..Len(chains) :
               \A j \in 1..Len(chains[i]) : chains[i][j].req.params.calendarId = ids[i]
        /\ UntaggedSeq(outcome[1].value) = ConcatChains(chains)

\* two calendars with events, the result not ordered by start time
C2_Witness ==
    /\ GetEventsReturned
    /\ LET r == outcome[1].value IN
       /\ \E i \in 1..Len(r) : r[i].id[1] = "A"
       /\ \E i \in 1..Len(r) : r[i].id[1] = "B"
       /\ \E i \in 1..(Len(r) - 1) : r[i].start > r[i + 1].start

\* C3: once an events.list request of getEvents has failed, the operation has
\* ended with an error that carries no events, and no request follows the
\* failed one.
C3_NoPartialResult ==
    (op.name = "getEvents" /\ \E k \in 1..Len(EventsLog) : ~EventsLog[k].res.ok) =>
        /\ GetEventsThrew
        /\ outcome[1].value = <<>>
        /\ pc = "done"
        /\ Len(requests) = Len(responses)
        /\ ~responses[Len(responses)].ok

\* the second calendar fails after the first was fetched with events
C3_Witness ==
    /\ GetEventsThrew
    /\ loop.idx = 2
    /\ loop.allItems # <<>>
    /\ Len(EventsLog) >= 2
    /\ ~EventsLog[Len(EventsLog)].res.ok

\* C4: every event of a returned result has exactly the provider's fields and
\* one calendarId; an answer to a request for that calendar carried the event,
\* no answer to a request for another calendar did, and the calendar is one
\* of those selected.
C4_SourceTag ==
    GetEventsReturned =>
        \A i \in 1..Len(outcome[1].value) :
            LET e == outcome[1].value[i] IN
            /\ DOMAIN e = {"id", "start", "calendarId"}
            /\ \E k \in 1..Len(EventsLog) :
                   /\ EventsLog[k].req.params.calendarId = e.calendarId
                   /\ \E n \in 1..Len(PageItems(EventsLog[k].res.data)) :
                          PageItems(EventsLog[k].res.data)[n] = Untagged(e)
            /\ \A k \in 1..Len(EventsLog) :
                   (\E n \in 1..Len(PageItems(EventsLog[k].res.data)) :
                        PageItems(EventsLog[k].res.data)[n] = Untagged(e))
                   => EventsLog[k].req.params.calendarId = e.calendarId
            /\ \E n \in 1..Len(loop.calendarIds) : loop.calendarIds[n] = e.calendarId

\* events of two calendars, the selection taken from the calendar list
C4_Witness ==
    /\ GetEventsReturned
    /\ op.calendarId = None
    /\ \E i \in 1..Len(outcome[1].value) : outcome[1].value[i].calendarId = "A"
    /\ \E i \in 1..Len(outcome[1].value) : outcome[1].value[i].calendarId = "B"

\* ------------------------------------------------------------- error kinds
StartsWith(s, prefix) ==
    Len(s) >= Len(prefix) /\ SubSeq(s, 1, Len(prefix)) = prefix

\* the kind of the taxonomy an error's message belongs to
KindOf(e) ==
    CASE e.message = MsgNoLinkedAccount -> "NoLinkedAccount"
      [] e.message = MsgMissingAccessToken -> "MissingAccessToken"
      [] e.message = MsgInsufficientScope -> "InsufficientScope"
      [] e.message = MsgAuthExpired -> "AuthExpired"
      [] e.message = MsgApiNotEnabled -> "ApiNotEnabled"
      [] e.message = MsgInsufficientPermission -> "InsufficientPermission"
      [] e.message = MsgRateLimited -> "RateLimited"
      [] StartsWith(e.message, MsgAccessDeniedPrefix) -> "AccessDenied"
      [] StartsWith(e.message, MsgEventsFailedPrefix) -> "UpstreamFailure"
      [] StartsWith(e.message, MsgListFailedPrefix) -> "UpstreamFailure"
      [] OTHER -> "Unclassified"

\* the credential record of the user the operation runs for
Record == accounts[op.userId][1]
HasRecord == accounts[op.userId] # None
HasAccessToken == Record.accessToken # None /\ Record.accessToken[1] # ""
ScopeHas(tok) == Record.scope # None /\ Includes(Record.scope[1], tok)

ResolveFailed == \E k \in 1..Len(resolves) : ~resolves[k].ok

\* C5 as stated: a record whose scope string contains neither capability
\* token fails with InsufficientScope, a record whose scope string contains
\* at least one resolves.
C5_Original ==
    \A k \in 1..Len(resolves) :
        (HasRecord /\ Record.scope # None) =>
            IF ~ScopeHas(ScopeRead) /\ ~ScopeHas(ScopeEvents)
            THEN ~resolves[k].ok /\ KindOf(resolves[k].error) = "InsufficientScope"
            ELSE resolves[k].ok

\* C5: for a record that has an access token, resolve fails with
\* InsufficientScope when the scope string is present, not empty and contains
\* neither 'calendar.readonly' nor 'calendar.events', and succeeds when the
\* scope string contains at least one of them, is empty or is absent.
C5_ScopeCheck ==
    \A k \in 1..Len(resolves) :
        (HasRecord /\ HasAccessToken) =>
            IF /\ Record.scope # None
               /\ Record.scope[1] # EmptyStr
               /\ ~ScopeHas(ScopeRead)
               /\ ~ScopeHas(ScopeEvents)
            THEN ~resolves[k].ok /\ KindOf(resolves[k].error) = "InsufficientScope"
            ELSE resolves[k].ok

\* a record with only the manage-events capability has resolved
C5_Witness ==
    /\ resolves # <<>>
    /\ resolves[1].ok
    /\ HasRecord
    /\ ScopeHas(ScopeEvents)
    /\ ~ScopeHas(ScopeRead)

\* C6: resolve fails with NoLinkedAccount for a user without record and with
\* MissingAccessToken for a record without access token whatever its scope
\* string; and an operation whose resolve failed has issued no remote request
\* and caused no credential-store write.
C6_GuardOrder ==
    /\ \A k \in 1..Len(resolves) :
        /\ ~HasRecord =>
               ~resolves[k].ok /\ KindOf(resolves[k].error) = "NoLinkedAccount"
        /\ (HasRecord /\ ~HasAccessToken) =>
               ~resolves[k].ok /\ KindOf(resolves[k].error) = "MissingAccessToken"
    /\ ResolveFailed =>
        /\ KindOf(resolves[Len(resolves)].error)
               \in {"NoLinkedAccount", "MissingAccessToken", "InsufficientScope"}
        /\ requests = <<>>
        /\ handlers = <<>>
        /\ \A u \in Users : accounts[u] # None => accounts[u][1].updatedAt = 0
        /\ pc = "done"

\* a mutation stopped by a record that lacks the access token and the scopes
C6_Witness ==
    /\ op.name \in {"createEvent", "updateEvent", "deleteEvent"}
    /\ ResolveFailed
    /\ HasRecord
    /\ ~HasAccessToken
    /\ Record.scope # None
    /\ Record.scope[1] # EmptyStr
    /\ ~ScopeHas(ScopeRead)
    /\ ~ScopeHas(ScopeEvents)
    /\ outcome # None

\* the failure the last events.list request of getEvents ended with
EventsFailure == responses[Len(responses)].error
EventsRequestFailed ==
    /\ op.name = "getEvents"
    /\ responses # <<>>
    /\ Len(requests) = Len(responses)
    /\ requests[Len(requests)].api = "events.list"
    /\ ~responses[Len(responses)].ok

Status(e, n) == e.code = n \/ e.status = n
ProviderText(e) == IF e.respMsg # None /\ e.respMsg[1] # EmptyStr THEN e.respMsg[1] ELSE e.message
SurfacedKind == KindOf(outcome[1].error)

\* C7 as stated, a failure that meets several of its cases taking the first
\* one listed: 401 gives AuthExpired, 403 with 'Calendar API has not been
\* used' ApiNotEnabled, 403 with 'insufficient' InsufficientPermission, 429
\* RateLimited.
C7_Original ==
    EventsRequestFailed =>
        LET e == EventsFailure
            text == ProviderText(e)
        IN
        /\ GetEventsThrew
        /\ Status(e, 401) => SurfacedKind = "AuthExpired"
        /\ (~Status(e, 401) /\ Status(e, 403) /\ Includes(text, PatApiNotUsed)) =>
               SurfacedKind = "ApiNotEnabled"
        /\ (/\ ~Status(e, 401)
            /\ Status(e, 403)
            /\ Includes(text, PatInsufficient)
            /\ ~Includes(text, PatApiNotUsed)) =>
               SurfacedKind = "InsufficientPermission"
        /\ (~Status(e, 401) /\ ~Status(e, 403) /\ Status(e, 429)) =>
               SurfacedKind = "RateLimited"

\* C7: with the status read from error.code or error.status and the message
\* from the provider's response body when it has one, else from the error:
\* 401 gives AuthExpired; otherwise 403 with 'Calendar API has not been used'
\* gives ApiNotEnabled; otherwise 403 with 'insufficient' and neither 'has not
\* been enabled' nor 'Calendar API has not been used' gives
\* InsufficientPermission; 429 without 401 or 403 gives RateLimited.
C7_Classifier ==
    EventsRequestFailed =>
        LET e == EventsFailure
            text == ProviderText(e)
        IN
        /\ GetEventsThrew
        /\ Status(e, 401) => SurfacedKind = "AuthExpired"
        /\ (~Status(e, 401) /\ Status(e, 403) /\ Includes(text, PatApiNotUsed)) =>
               SurfacedKind = "ApiNotEnabled"
        /\ (/\ ~Status(e, 401)
            /\ Status(e, 403)
            /\ Includes(text, PatInsufficient)
            /\ ~Includes(text, PatApiNotUsed)
            /\ ~Includes(text, PatNotEnabled)) =>
               SurfacedKind = "InsufficientPermission"
        /\ (~Status(e, 401) /\ ~Status(e, 403) /\ Status(e, 429)) =>
               SurfacedKind = "RateLimited"

\* a 403 whose body speaks of insufficient scopes, reported only in
\* error.status, while the error's own message says something else
C7_Witness ==
    /\ EventsRequestFailed
    /\ EventsFailure.code = NoStatus
    /\ EventsFailure.status = 403
    /\ EventsFailure.respMsg # None
    /\ Includes(EventsFailure.respMsg[1], PatInsufficient)
    /\ ~Includes(EventsFailure.respMsg[1], PatNotEnabled)
    /\ ~Includes(EventsFailure.message, PatInsufficient)
    /\ SurfacedKind = "InsufficientPermission"

\* C8 as stated: a 401 (429) that fails the calendar-list request of
\* listCalendars or of getEvents, or the request of a mutation, reaches the
\* caller as AuthExpired (RateLimited).
C8_Original ==
    (/\ responses # <<>>
     /\ Len(requests) = Len(responses)
     /\ ~responses[Len(responses)].ok
     /\ requests[Len(requests)].api # "events.list") =>
        LET e == responses[Len(responses)].error IN
        /\ outcome # None
        /\ outcome[1].type = "error"
        /\ Status(e, 401) => SurfacedKind = "AuthExpired"
        /\ (Status(e, 429) /\ ~Status(e, 401)) => SurfacedKind = "RateLimited"

\* C9 as stated: a resolver failure inside getEvents or listCalendars reaches
\* the caller with the resolver's kind.
C9_Original ==
    (op.name \in {"getEvents", "listCalendars"} /\ ResolveFailed) =>
        /\ outcome # None
        /\ outcome[1].type = "error"
        /\ SurfacedKind = KindOf(resolves[Len(resolves)].error)

\* the updates a run of the observer issued for one field
IssuedFor(h, field) == Cardinality({ k \in 1..Len(h.issued) : h.issued[k].field = field })
Carries(tok) == tok # None /\ tok[1] # ""

\* C10 as stated, for a run of the observer that has ended: one update of the
\* access-token field if the event carried an access token, one of the
\* refresh-token field if it carried a refresh token, none for a field it did
\* not carry.
C10_Original ==
    \A i \in 1..Len(handlers) :
        LET h == handlers[i] IN
        h.pc \in {"done", "rejected"} =>
            /\ IssuedFor(h, "accessToken") = IF Carries(h.tokens.access_token) THEN 1 ELSE 0
            /\ IssuedFor(h, "refreshToken") = IF Carries(h.tokens.refresh_token) THEN 1 ELSE 0

\* C11 as stated: a failed store write of the observer does not end the
\* operation in flight; the operation goes on to the result it would have had.
C11_Original ==
    (\E i \in 1..Len(handlers) : handlers[i].pc = "rejected") =>
        ~(pc = "crashed" /\ outcome = None)

DraftFields == {"summary", "description", "start", "end", "attendees"}

\* C12 as stated: after updateEvent has returned, every field the draft left
\* out has on the provider the value it had before.
C12_Original ==
    (op.name = "updateEvent" /\ outcome # None /\ outcome[1].type = "value") =>
        \A f \in DraftFields :
            op.event[f] = None => remote.events[op.eventId[1]][1][f] = StoredEvent[f]

\* C13 as stated: a getEvents called again with the same arguments, the
\* provider's calendars and events unchanged, returns what the earlier call
\* returned, also when the calls leave out timeMin.
C13_Original ==
    (previous # None /\ GetEventsReturned) =>
        outcome[1].value = previous[1].value

\* C13: two calls of getEvents with the same arguments that include timeMin,
\* the provider's calendars and events unchanged between them and both calls
\* returning, return the same events in the same order.
C13_Idempotent ==
    (previous # None /\ GetEventsReturned /\ op.timeMin # None) =>
        outcome[1].value = previous[1].value

\* the second call has returned the events of two calendars once more, later
C13_Witness ==
    /\ previous # None
    /\ GetEventsReturned
    /\ op.timeMin # None
    /\ Len(outcome[1].value) >= 2
    /\ outcome[1].value = previous[1].value
    /\ \E i \in 1..Len(outcome[1].value) : outcome[1].value[i].calendarId = "B"

\* C14: a remote request that failed is the last request of its invocation:
\* the invocation has ended with an error and has issued nothing after it,
\* neither the same request again, nor a next page, nor a later calendar.
C14_NoRetry ==
    \A k \in 1..Len(responses) :
        ~responses[k].ok =>
            /\ k = Len(responses)
            /\ Len(requests) = k
            /\ pc = "done"
            /\ outcome # None
            /\ outcome[1].type = "error"

\* a rate-limited events.list with a later calendar still to fetch
C14_Witness ==
    /\ op.name = "getEvents"
    /\ responses # <<>>
    /\ ~responses[Len(responses)].ok
    /\ responses[Len(responses)].error.status = 429
    /\ loop.idx < Len(loop.calendarIds)
    /\ pc = "done"

\* the calendars of the page chains the operation has started, in order
RECURSIVE ChainHeads(_)
ChainHeads(reqs) ==
    IF reqs = <<>> THEN <<>>
    ELSE (IF reqs[1].api = "events.list" /\ reqs[1].pageToken = NoToken
          THEN <<reqs[1].params.calendarId>> ELSE <<>>) \o ChainHeads(Tail(reqs))

ListRequests == SelectSeq(requests, LAMBDA q : q.api = "calendarList.list")

\* C16 as stated, for a getEvents that has returned: with calendarIds given,
\* also as '' or as [], no calendar-list request was made and the events were
\* asked of exactly the given identifiers in the given order; with
\* calendarIds left out, one calendar-list request was made and the events
\* were asked of every calendar it returned, in its order.
C16_Original ==
    GetEventsReturned =>
        IF op.calendarId # None
        THEN /\ ListRequests = <<>>
             /\ ChainHeads(requests) = op.calendarId[1].ids
        ELSE /\ Len(ListRequests) = 1
             /\ ChainHeads(requests) =
                    [i \in 1..Len(PageItems(responses[1].data)) |->
                        PageItems(responses[1].data)[i].id]
             /\ (PageItems(responses[1].data) = <<>> =>
                    Len(requests) = 1 /\ outcome[1].value = <<>>)

\* C17: in getEvents at most one request is unanswered; a request that opens
\* a calendar's chain carries no page token and follows either no events.list
\* request or one whose answer had no continuation token; every other
\* events.list request asks the same calendar as the request before it and
\* carries the token of that request's answer; the chains opened are those of
\* the selected calendars in order.
C17_Sequential ==
    op.name = "getEvents" =>
        /\ Len(requests) - Len(responses) \in {0, 1}
        /\ \A k \in 1..Len(requests) :
            requests[k].api = "events.list" =>
                IF k = 1 \/ requests[k - 1].api # "events.list"
                THEN requests[k].pageToken = NoToken
                ELSE /\ responses[k - 1].ok
                     /\ IF responses[k - 1].data.nextPageToken = NoToken
                        THEN requests[k].pageToken = NoToken
                        ELSE /\ requests[k].pageToken = responses[k - 1].data.nextPageToken
                             /\ requests[k].params.calendarId
                                    = requests[k - 1].params.calendarId
        /\ LET heads == ChainHeads(requests) IN
           /\ Len(heads) <= Len(loop.calendarIds)
           /\ \A i \in 1..Len(heads) : heads[i] = loop.calendarIds[i]

\* the second calendar's first request is unanswered, after a two-page chain
C17_Witness ==
    /\ op.name = "getEvents"
    /\ pc = "eventsList"
    /\ Len(requests) = 3
    /\ Len(responses) = 2
    /\ requests[2].pageToken # NoToken
    /\ requests[3].pageToken = NoToken
    /\ requests[3].params.calendarId # requests[2].params.calendarId

ClassifierKinds ==
    {"AuthExpired", "ApiNotEnabled", "InsufficientPermission", "AccessDenied",
     "RateLimited", "UpstreamFailure"}

\* C18: a failed events.list request ends getEvents with an error of one of
\* the six kinds: AuthExpired when code or status is 401, whatever the other
\* field; otherwise, for a 403, ApiNotEnabled when the message has one of the
\* API patterns, also when it has a permission pattern too, and AccessDenied
\* when it has none of the four; UpstreamFailure when neither code nor status
\* is 401, 403 or 429.
C18_Precedence ==
    EventsRequestFailed =>
        LET e == EventsFailure
            text == ProviderText(e)
            api == Includes(text, PatApiNotUsed) \/ Includes(text, PatNotEnabled)
            perm == Includes(text, PatInsufficient) \/ Includes(text, PatScope)
        IN
        /\ GetEventsThrew
        /\ SurfacedKind \in ClassifierKinds
        /\ Status(e, 401) => SurfacedKind = "AuthExpired"
        /\ (~Status(e, 401) /\ Status(e, 403) /\ api) => SurfacedKind = "ApiNotEnabled"
        /\ (~Status(e, 401) /\ Status(e, 403) /\ ~api /\ ~perm) =>
               SurfacedKind = "AccessDenied"
        /\ (~Status(e, 401) /\ ~Status(e, 403) /\ ~Status(e, 429)) =>
               SurfacedKind = "UpstreamFailure"

\* a failure with code 429 and status 401 has become AuthExpired
C18_Witness ==
    /\ EventsRequestFailed
    /\ EventsFailure.code = 429
    /\ EventsFailure.status = 401
    /\ SurfacedKind = "AuthExpired"

\* C15: a step changes the accounts table only by completing an update the
\* observer is waiting for; the step leaves every other user's record alone
\* and changes in the record of the observer's user the token field the
\* update carries and updatedAt, not userId, scope or the other token field;
\* while no rotation has been reported the table does not change.
C15_RecordFrame ==
    [][ accounts' # accounts =>
          \E i \in 1..Len(handlers) :
              LET h == handlers[i]
                  w == h.issued[Len(h.issued)]
                  u == h.userId
              IN
              /\ h.pc \in {"access", "refresh"}
              /\ handlers'[i].pc # h.pc
              /\ \A v \in Users \ {u} : accounts'[v] = accounts[v]
              /\ accounts[u] # None
              /\ accounts'[u] # None
              /\ accounts'[u][1].userId = accounts[u][1].userId
              /\ accounts'[u][1].scope = accounts[u][1].scope
              /\ accounts'[u][1].updatedAt = w.updatedAt
              /\ IF w.field = "accessToken"
                 THEN /\ accounts'[u][1].accessToken = Some(w.value)
                      /\ accounts'[u][1].refreshToken = accounts[u][1].refreshToken
                 ELSE /\ accounts'[u][1].refreshToken = Some(w.value)
                      /\ accounts'[u][1].accessToken = accounts[u][1].accessToken ]_vars

\* the observer has stored a new access token beside the old refresh token
\* and the operation has returned
C15_Witness ==
    /\ outcome # None
    /\ outcome[1].type = "value"
    /\ handlers # <<>>
    /\ handlers[1].pc = "done"
    /\ accounts["u1"] # None
    /\ accounts["u1"][1].accessToken = Some(NewAccessToken(1))
    /\ accounts["u1"][1].refreshToken = Some("rt0")

\* C19 as stated: two rotations that both carry an access and a refresh token
\* and whose observers have both finished leave the two stored tokens of one
\* and the same rotation.
C19_Original ==
    (/\ Len(handlers) = 2
     /\ \A i \in 1..2 :
            /\ handlers[i].pc = "done"
            /\ Carries(handlers[i].tokens.access_token)
            /\ Carries(handlers[i].tokens.refresh_token)) =>
        \E i \in 1..2 :
            /\ accounts[handlers[i].userId][1].accessToken = handlers[i].tokens.access_token
            /\ accounts[handlers[i].userId][1].refreshToken = handlers[i].tokens.refresh_token

OneOutcome ==
    /\ pc = "done"
    /\ outcome # None
    /\ \/ outcome[1].type = "value" /\ outcome[1].error = NewError(EmptyStr)
       \/ outcome[1].type = "error" /\ outcome[1].value = <<>>

\* C20 as stated: with the store answering every query and the provider every
\* request, and page chains of at most MaxPages pages, a getEvents that has
\* been called comes to its end with one outcome, the events or an error.
C20_Original ==
    (op.name = "getEvents" /\ pc = "select") ~> OneOutcome

====
